---- MODULE Spec2Model ----
(***************************************************************************)
(* The POST handler of src/web/src/app/api/search/route.ts: one request,   *)
(* from the credential check to the response, with the four upstream       *)
(* services (geocoding, text search, place details, pitch generation) as   *)
(* nondeterministic responders.  One action per stretch of code between    *)
(* two awaits on the network.                                              *)
(*                                                                         *)
(* JSON objects are records that hold exactly the properties present, so   *)
(* "absent" is k \notin DOMAIN o.  A JSON string of the request body is    *)
(* kept by its length (the only thing the schema reads), a JSON number as  *)
(* int + 1/2 when half is TRUE.  Messages are written without accents.     *)
(***************************************************************************)
EXTENDS Integers, Sequences, FiniteSets, TLC

VARIABLES env, pc, request, body, coords, summaries, details, filtered,
          groqPitches, response, calls

vars == <<env, pc, request, body, coords, summaries, details, filtered,
          groqPitches, response, calls>>

-----------------------------------------------------------------------------
(* Bounds of the model *)

\* longest list the text search returns over PlaceIds
MaxSummaries == 2
\* longest list of pitches the generator returns
MaxPitches == 2
\* length of the one long search result, the places of the catalogue
LongLen == 11

PlaceIds == {"p1", "p2"}

-----------------------------------------------------------------------------
(* Small helpers *)

Has(o, k) == k \in DOMAIN o

Min(a, b) == IF a < b THEN a ELSE b

Range(s) == {s[i] : i \in DOMAIN s}

SeqsUpTo(S, n) == UNION {[1..k -> S] : k \in 0..n}

\* Array.prototype.slice(0, n)
Slice(s, n) == SubSeq(s, 1, Min(Len(s), n))

\* an exception thrown by an async function (a rejected promise)
Throw(msg) == [threw |-> TRUE, message |-> msg]

\* a value returned by an async function (a fulfilled promise)
Return(v) == [threw |-> FALSE, value |-> v]

RECURSIVE ObjectsWith(_, _)
\* the JSON objects over the properties keys: property k is absent or drawn
\* from dom[k]
ObjectsWith(dom, keys) ==
  IF keys = {} THEN {<<>>}
  ELSE LET k == CHOOSE x \in keys : TRUE
           rest == ObjectsWith(dom, keys \ {k})
       IN rest \cup {(k :> v) @@ o : v \in dom[k], o \in rest}

ObjectsOver(dom) == ObjectsWith(dom, DOMAIN dom)

Str(n) == [type |-> "string", length |-> n]

Num(n) == [type |-> "number", int |-> n, half |-> FALSE]

NumAndHalf(n) == [type |-> "number", int |-> n, half |-> TRUE]

-----------------------------------------------------------------------------
(* bodySchema: the zod schema and ZodError.flatten *)

ShapeKeys == <<"query", "location", "radius", "vibe", "tone", "maxResults">>

Issue(key, code) == [path |-> <<key>>, code |-> code]

\* z.string(): the type check ends the property's parse
ZodString(key, v) ==
  IF v.type # "string" THEN <<Issue(key, "invalid_type")>> ELSE <<>>

\* .min(n) of a string
ZodMinLength(key, v, n) ==
  IF v.type = "string" /\ v.length < n THEN <<Issue(key, "too_small")>> ELSE <<>>

\* .max(n) of a string
ZodMaxLength(key, v, n) ==
  IF v.type = "string" /\ v.length > n THEN <<Issue(key, "too_big")>> ELSE <<>>

\* a number check without its upper limit
ZodNumber_NoUpperBound(key, v, lo, hi) ==
  IF v.type # "number" THEN <<Issue(key, "invalid_type")>>
  ELSE (IF v.half THEN <<Issue(key, "not_integer")>> ELSE <<>>)
       \o (IF v.int < lo THEN <<Issue(key, "too_small")>> ELSE <<>>)

\* z.number().int().min(lo).max(hi): after the type check every check runs,
\* none aborts the others
ZodNumber(key, v, lo, hi) ==
  IF v.type # "number" THEN <<Issue(key, "invalid_type")>>
  ELSE (IF v.half THEN <<Issue(key, "not_integer")>> ELSE <<>>)
       \o (IF v.int < lo THEN <<Issue(key, "too_small")>> ELSE <<>>)
       \o (IF v.int > hi \/ (v.int = hi /\ v.half)
             THEN <<Issue(key, "too_big")>> ELSE <<>>)

MinQuery == 2
MinLocation == 2
MinRadius == 500
MaxRadius == 50000
DefaultRadius == 5000
MaxVibe == 280
MaxTone == 120
MinMaxResults == 1
MaxMaxResults == 8
DefaultMaxResults == 5

\* the issues of one property of the body; a missing query or location is
\* an invalid_type issue ("Required"), the other four are optional
FieldIssues(key, o) ==
  CASE key = "query" ->
         IF Has(o, key)
           THEN ZodString(key, o[key]) \o ZodMinLength(key, o[key], MinQuery)
           ELSE <<Issue(key, "invalid_type")>>
    [] key = "location" ->
         IF Has(o, key)
           THEN ZodString(key, o[key]) \o ZodMinLength(key, o[key], MinLocation)
           ELSE <<Issue(key, "invalid_type")>>
    [] key = "radius" ->
         IF Has(o, key) THEN ZodNumber(key, o[key], MinRadius, MaxRadius)
         ELSE <<>>
    [] key = "vibe" ->
         IF Has(o, key)
           THEN ZodString(key, o[key]) \o ZodMaxLength(key, o[key], MaxVibe)
           ELSE <<>>
    [] key = "tone" ->
         IF Has(o, key)
           THEN ZodString(key, o[key]) \o ZodMaxLength(key, o[key], MaxTone)
           ELSE <<>>
    [] key = "maxResults" ->
         IF Has(o, key)
           THEN ZodNumber(key, o[key], MinMaxResults, MaxMaxResults)
         ELSE <<>>

RECURSIVE ObjectIssues_FirstOnly(_, _)
\* a parse that stops at the first property with an issue
ObjectIssues_FirstOnly(o, i) ==
  IF i > Len(ShapeKeys) THEN <<>>
  ELSE IF FieldIssues(ShapeKeys[i], o) # <<>> THEN FieldIssues(ShapeKeys[i], o)
  ELSE ObjectIssues_FirstOnly(o, i + 1)

RECURSIVE ObjectIssues(_, _)
\* z.object: every key of the shape is parsed and all issues are collected
ObjectIssues(o, i) ==
  IF i > Len(ShapeKeys) THEN <<>>
  ELSE FieldIssues(ShapeKeys[i], o) \o ObjectIssues(o, i + 1)

\* bodySchema.parse(json): the issues of the ZodError (none: parse succeeds)
bodySchema(json) ==
  IF json.kind # "object" THEN <<[path |-> <<>>, code |-> "invalid_type"]>>
  ELSE ObjectIssues(json.value, 1)

\* error.flatten().fieldErrors: the issues with a path, grouped by path[0]
fieldErrors(issues) ==
  [k \in {issues[i].path[1] : i \in {j \in DOMAIN issues : issues[j].path # <<>>}}
     |-> SelectSeq(issues, LAMBDA e : e.path = <<k>>)]

-----------------------------------------------------------------------------
(* What fetch() can bring back *)

\* fetch() rejects: DNS, connection reset, ...
NetworkError == [fetch |-> "rejected"]

\* fetch() resolves; ok is res.ok, data what res.json() yields
Http(ok, data) == [fetch |-> "resolved", ok |-> ok, data |-> data]

\* a body on which res.json() throws
InvalidJson == [syntaxError |-> TRUE]

Null == [null |-> TRUE]

Undefined == [undefined |-> TRUE]

\* Boolean(v) of a value that is null, undefined or an object
Truthy(v) == v # Null /\ v # Undefined

\* Boolean(s) of an optional string property: absent and "" are falsy
TruthyString(o, k) == Has(o, k) /\ o[k] # ""

-----------------------------------------------------------------------------
(* geocodeLocation *)

Paris == [lat |-> 48, lng |-> 2]

Lyon == [lat |-> 45, lng |-> 4]

GeocodeResult(c) == [geometry |-> [location |-> c]]

GeocodeResponses ==
  {NetworkError, Http(FALSE, InvalidJson), Http(TRUE, InvalidJson)}
  \cup {Http(TRUE, d) : d \in
         {[status |-> "ZERO_RESULTS", results |-> <<>>],
          [status |-> "REQUEST_DENIED"],
          [status |-> "OK", results |-> <<>>],
          [status |-> "OK", results |-> <<GeocodeResult(Paris)>>],
          [status |-> "OK",
           results |-> <<GeocodeResult(Paris), GeocodeResult(Lyon)>>]}}

\* the last result taken in place of the first
geocodeLocation_LastResult(res) ==
  IF res.fetch = "rejected" THEN Throw("fetch failed")
  ELSE IF ~res.ok THEN Throw("Geocoding request failed.")
  ELSE IF res.data = InvalidJson THEN Throw("Unexpected token in JSON")
  ELSE IF res.data.status # "OK"
          \/ ~Has(res.data, "results") \/ Len(res.data.results) = 0
    THEN Throw("Impossible de localiser cette zone.")
  ELSE Return(res.data.results[Len(res.data.results)].geometry.location)

geocodeLocation(res) ==
  IF res.fetch = "rejected" THEN Throw("fetch failed")
  ELSE IF ~res.ok THEN Throw("Geocoding request failed.")
  ELSE IF res.data = InvalidJson THEN Throw("Unexpected token in JSON")
  ELSE IF res.data.status # "OK"
          \/ ~Has(res.data, "results") \/ Len(res.data.results) = 0
    THEN Throw("Impossible de localiser cette zone.")
  ELSE Return(res.data.results[1].geometry.location)

-----------------------------------------------------------------------------
(* fetchPlaces *)

Summary(id) == [place_id |-> id]

CatalogueId(i) == "q" \o ToString(i)

\* the long answer: LongLen distinct places of the website-free catalogue
LongList == [i \in 1..LongLen |-> Summary(CatalogueId(i))]

SearchLists ==
  {[i \in DOMAIN l |-> Summary(l[i])] : l \in SeqsUpTo(PlaceIds, MaxSummaries)}
  \cup {LongList}

SearchResponses ==
  {NetworkError, Http(FALSE, InvalidJson), Http(TRUE, InvalidJson)}
  \cup {Http(TRUE, d) : d \in
         {[status |-> "REQUEST_DENIED"],
          [status |-> "REQUEST_DENIED", error_message |-> "The provided API key is invalid."],
          [status |-> "ZERO_RESULTS"],
          [status |-> "ZERO_RESULTS", results |-> <<>>]}
         \cup {[status |-> "OK", results |-> l] : l \in SearchLists}}

\* only "OK" is taken as a success
fetchPlaces_ZeroResultsIsError(res) ==
  IF res.fetch = "rejected" THEN Throw("fetch failed")
  ELSE IF ~res.ok THEN Throw("La recherche Google Places a echoue.")
  ELSE IF res.data = InvalidJson THEN Throw("Unexpected token in JSON")
  ELSE IF res.data.status # "OK"
    THEN Throw(IF Has(res.data, "error_message") THEN res.data.error_message
               ELSE "Google Places a retourne une reponse inattendue.")
  ELSE Return(IF Has(res.data, "results") THEN res.data.results ELSE <<>>)

fetchPlaces(res) ==
  IF res.fetch = "rejected" THEN Throw("fetch failed")
  ELSE IF ~res.ok THEN Throw("La recherche Google Places a echoue.")
  ELSE IF res.data = InvalidJson THEN Throw("Unexpected token in JSON")
  ELSE IF res.data.status \notin {"OK", "ZERO_RESULTS"}
    THEN Throw(IF Has(res.data, "error_message") THEN res.data.error_message
               ELSE "Google Places a retourne une reponse inattendue.")
  ELSE Return(IF Has(res.data, "results") THEN res.data.results ELSE <<>>)

-----------------------------------------------------------------------------
(* fetchPlaceDetails and the callback of subset.map *)

Websites == {"", "https://shop.example"}

\* the catalogue is fixed data: its first place has a website, its second
\* is unknown to the details service, every other place is found and has no
\* website
CatalogueDetail(placeId) ==
  IF placeId = CatalogueId(1)
    THEN [status |-> "OK",
          result |-> [place_id |-> placeId, website |-> "https://shop.example"]]
  ELSE IF placeId = CatalogueId(2) THEN [status |-> "NOT_FOUND"]
  ELSE [status |-> "OK", result |-> [place_id |-> placeId]]

\* what the details service can answer for placeId: anything for the places
\* of PlaceIds, the catalogue's entry for a catalogue place
DetailResponses(placeId) ==
  IF placeId \in PlaceIds
    THEN {NetworkError, Http(FALSE, InvalidJson), Http(TRUE, InvalidJson)}
         \cup {Http(TRUE, d) : d \in
                {[status |-> "NOT_FOUND"], [status |-> "OK"],
                 [status |-> "OK", result |-> [place_id |-> placeId]]}
                \cup {[status |-> "OK",
                       result |-> [place_id |-> placeId, website |-> w]]
                      : w \in Websites}}
    ELSE {Http(TRUE, CatalogueDetail(placeId))}

fetchPlaceDetails(res) ==
  IF res.fetch = "rejected" THEN Throw("fetch failed")
  ELSE IF ~res.ok THEN Return(Null)
  ELSE IF res.data = InvalidJson THEN Throw("Unexpected token in JSON")
  ELSE IF res.data.status # "OK" THEN Return(Null)
  ELSE Return(IF Has(res.data, "result") THEN res.data.result ELSE Undefined)

buildMapsUrl(placeId) == "https://www.google.com/maps/place/?q=place_id:" \o placeId

\* the async callback given to subset.map, after its await
EnrichDetail(r) ==
  IF r.threw THEN r
  ELSE IF ~Truthy(r.value) THEN Return(Null)
  ELSE Return([googleMapsUrl |-> buildMapsUrl(r.value.place_id)] @@ r.value)

\* the states of one promise of the Promise.all
Pending == [state |-> "pending"]

Settled(r) ==
  IF r.threw THEN [state |-> "rejected", reason |-> r.message]
  ELSE [state |-> "fulfilled", value |-> r.value]

\* the values in the reverse of the order of the promises
Values_Reversed(ds) == [i \in DOMAIN ds |-> ds[Len(ds) + 1 - i].value]

\* the array Promise.all resolves to
Values(ds) == [i \in DOMAIN ds |-> ds[i].value]

-----------------------------------------------------------------------------
(* buildGroqPitch *)

JsArray(items) == [type |-> "array", items |-> items]

Pitch(id, i) == [placeId |-> id, angle |-> "angle " \o ToString(i)]

\* the place ids the generator may name: the known ones and a catalogue one
PitchIds == PlaceIds \cup {CatalogueId(3)}

PitchLists ==
  {[i \in DOMAIN l |-> Pitch(l[i], i)] : l \in SeqsUpTo(PitchIds, MaxPitches)}

\* the content of a completion, as a sequence of pieces: code-fence markers
\* (three backquotes, written "fence" here),
\* JSON text (kept as the value it parses to) and prose
Fence(marker) == [fence |-> marker]

JsonText(v) == [text |-> "json", value |-> v]

Prose == [text |-> "prose"]

GroqJsonValues ==
  {Null, [note |-> "no businesses"], [businesses |-> Str(4)]}
  \cup {[businesses |-> JsArray(ps)] : ps \in PitchLists}

GroqContents ==
  {<<Prose>>}
  \cup {<<JsonText(v)>> : v \in GroqJsonValues}
  \cup {<<Prose, JsonText(v)>> : v \in GroqJsonValues}
  \cup {<<Fence("fence:json"), JsonText(v), Fence("fence")>> : v \in GroqJsonValues}

GroqResponses ==
  {NetworkError, Http(FALSE, InvalidJson), Http(TRUE, InvalidJson),
   Http(TRUE, [error |-> [message |-> "rate limited"]])}
  \cup {Http(TRUE, [choices |-> <<[message |-> [content |-> c]]>>])
        : c \in GroqContents}

\* content.replace(...): every code-fence marker, with or without its json
\* tag, is removed
StripFences(content) == SelectSeq(content, LAMBDA piece : ~Has(piece, "fence"))

\* JSON.parse(content): throws unless the text is one JSON value
JsonParse(content) ==
  IF Len(content) = 1 /\ content[1].text = "json"
    THEN Return(content[1].value)
    ELSE Throw("Unexpected token in JSON")

\* the try block: JSON.parse, then parsed.businesses ?? []
ParsePitches(content) ==
  LET parsed == JsonParse(content)
  IN IF parsed.threw \/ parsed.value = Null THEN JsArray(<<>>)
     ELSE IF Has(parsed.value, "businesses") THEN parsed.value.businesses
     ELSE JsArray(<<>>)

\* buildGroqPitch from the fetch on (the key was present)
buildGroqPitch(res) ==
  IF res.fetch = "rejected" THEN Throw("fetch failed")
  ELSE IF ~res.ok THEN Return(JsArray(<<>>))
  ELSE IF res.data = InvalidJson THEN Throw("Unexpected token in JSON")
  ELSE Return(ParsePitches(
         IF Has(res.data, "choices") /\ Len(res.data.choices) > 0
           THEN StripFences(res.data.choices[1].message.content)
           ELSE <<>>))

-----------------------------------------------------------------------------
(* POST: the synchronous pieces *)

\* process.env.GOOGLE_MAPS_API_KEY and process.env.GROQ_API_KEY, as read
\* a key check that always passes
googleKey_AlwaysSet == TRUE

googleKey == env.GOOGLE_MAPS_API_KEY

\* a key check that always passes
groqKey_AlwaysSet == TRUE

groqKey == env.GROQ_API_KEY

radius == IF Has(body, "radius") THEN body.radius.int ELSE DefaultRadius

\* a default of 10 in place of 5
maxResults_DefaultTen == IF Has(body, "maxResults") THEN body.maxResults.int ELSE 10

maxResults == IF Has(body, "maxResults") THEN body.maxResults.int ELSE DefaultMaxResults

DetailFactor == 2

\* the map without its slice
subset_WholeList(found) == [i \in DOMAIN found |-> found[i].place_id]

subset(found) ==
  LET head == Slice(found, maxResults * DetailFactor)
  IN [i \in DOMAIN head |-> head[i].place_id]

\* the filter without its website test
WebsiteFilter_KeepsWebsites(items) == Slice(SelectSeq(items, Truthy), maxResults)

WebsiteFilter(items) ==
  Slice(SelectSeq(SelectSeq(items, Truthy),
                  LAMBDA item : ~TruthyString(item, "website")),
        maxResults)

\* a find whose predicate accepts every item
FindPitch_AnyItem(pitches, id) == IF Len(pitches) = 0 THEN Null ELSE pitches[1]

\* groqPitches.find(item => item.placeId === id) ?? null
FindPitch(pitches, id) ==
  LET hits == {i \in DOMAIN pitches : pitches[i].placeId = id}
  IN IF hits = {} THEN Null
     ELSE pitches[CHOOSE i \in hits : \A j \in hits : i <= j]

\* filtered.map(...): a value that is no array has no find
Combine(businesses, pitches) ==
  IF pitches.type # "array" THEN Throw("groqPitches.find is not a function")
  ELSE Return([i \in DOMAIN businesses |->
                 [pitch |-> FindPitch(pitches.items, businesses[i].place_id)]
                 @@ businesses[i]])

NoteNothingFound == "Aucun commerce trouve pour cette combinaison."

NoteAllHaveWebsite == "Les commerces trouves disposent deja d'un site web."

\* executedAt, the clock's reading, is left out of the metadata
Metadata(totalFound, totalWithoutWebsite) ==
  [totalFound |-> totalFound, totalWithoutWebsite |-> totalWithoutWebsite,
   location |-> coords, query |-> body.query]

Json(status, payload) == [status |-> status] @@ payload

NothingFoundResponse ==
  Json(200, [businesses |-> <<>>,
             metadata |-> [note |-> NoteNothingFound] @@ Metadata(0, 0)])

\* totalFound counted on the capped subset
AllHaveWebsiteResponse_CountsSubset(found) ==
  Json(200, [businesses |-> <<>>,
             metadata |-> [note |-> NoteAllHaveWebsite]
                          @@ Metadata(Len(subset(found)), 0)])

AllHaveWebsiteResponse(found) ==
  Json(200, [businesses |-> <<>>,
             metadata |-> [note |-> NoteAllHaveWebsite] @@ Metadata(Len(found), 0)])

FinalResponse(found, kept, combined) ==
  Json(200, [businesses |-> combined,
             metadata |-> Metadata(Len(found), Len(kept))])

\* the catch block of POST
ErrorResponse(message) == Json(500, [error |-> message])

MissingKeyResponse ==
  Json(500, [error |-> "Configure la variable d'environnement GOOGLE_MAPS_API_KEY avant d'utiliser ce service."])

ValidationResponse(issues) ==
  Json(400, [error |-> "Entree invalide.", details |-> fieldErrors(issues)])

BadRequestResponse == Json(400, [error |-> "Requete invalide."])

-----------------------------------------------------------------------------
(* The request and the environment *)

\* the properties a request body may carry, each with the values tried
BodyDomain ==
  [query |-> {Str(1), Str(2), Num(7)},
   location |-> {Str(1), Str(2)},
   radius |-> {Num(MinRadius - 1), Num(MinRadius), Num(MaxRadius), Num(MaxRadius + 1),
               NumAndHalf(750), Str(4)},
   vibe |-> {Str(MaxVibe + 1)},
   tone |-> {Str(MaxTone + 1)},
   maxResults |-> {Num(MinMaxResults - 1), Num(MinMaxResults), Num(2), Num(MaxMaxResults),
                   Num(MaxMaxResults + 1), NumAndHalf(1), Str(1)}]

\* what request.json() meets: text that is no JSON, a JSON array, an object
RequestBodies ==
  {[kind |-> "invalid"], [kind |-> "array"]}
  \cup {[kind |-> "object", value |-> o] : o \in ObjectsOver(BodyDomain)}

Init ==
  /\ env \in [GOOGLE_MAPS_API_KEY : BOOLEAN, GROQ_API_KEY : BOOLEAN]
  /\ pc = "start"
  /\ request = [bodyUsed |-> FALSE]
  /\ body = Undefined
  /\ coords = Undefined
  /\ summaries = <<>>
  /\ details = <<>>
  /\ filtered = <<>>
  /\ groqPitches = Undefined
  /\ response = Undefined
  /\ calls = <<>>

\* return NextResponse.json(...)
Respond(r) ==
  /\ response' = r
  /\ pc' = "done"

-----------------------------------------------------------------------------
(* POST, one action per stretch between two network awaits *)

\* lines 252-261
PostWithoutKey ==
  /\ pc = "start"
  /\ ~googleKey
  /\ Respond(MissingKeyResponse)
  /\ UNCHANGED <<env, request, body, coords, summaries, details, filtered,
                 groqPitches, calls>>

\* lines 263-278, the catch
PostRejectsBody(json) ==
  /\ bodySchema(json) # <<>>
  /\ request' = [bodyUsed |-> TRUE, json |-> json]
  /\ Respond(IF json.kind = "invalid" THEN BadRequestResponse
             ELSE ValidationResponse(bodySchema(json)))
  /\ UNCHANGED <<env, body, coords, summaries, details, filtered,
                 groqPitches, calls>>

\* lines 263-285: the body parses and geocodeLocation sends its request
PostAcceptsBody(json) ==
  /\ bodySchema(json) = <<>>
  /\ request' = [bodyUsed |-> TRUE, json |-> json]
  /\ body' = json.value
  /\ calls' = Append(calls, [service |-> "geocode", address |-> json.value.location])
  /\ pc' = "geocode"
  /\ UNCHANGED <<env, coords, summaries, details, filtered, groqPitches, response>>

\* lines 85-96 and 284-290: the geocoder answers, fetchPlaces sends its request
GeocodeResponds(res) ==
  /\ LET r == geocodeLocation(res)
     IN IF r.threw
          THEN /\ Respond(ErrorResponse(r.message))
               /\ UNCHANGED <<coords, calls>>
          ELSE /\ coords' = r.value
               /\ calls' = Append(calls, [service |-> "search", query |-> body.query,
                                          location |-> r.value, radius |-> radius])
               /\ pc' = "search"
               /\ UNCHANGED response
  /\ UNCHANGED <<env, request, body, summaries, details, filtered, groqPitches>>

\* lines 110-124 and 292-323: the search answers; with results, every detail
\* request of the subset is sent
SearchResponds(res) ==
  /\ LET r == fetchPlaces(res)
     IN IF r.threw
          THEN /\ Respond(ErrorResponse(r.message))
               /\ UNCHANGED <<summaries, details, calls>>
          ELSE /\ summaries' = r.value
               /\ IF Len(r.value) = 0
                    THEN /\ Respond(NothingFoundResponse)
                         /\ UNCHANGED <<details, calls>>
                    ELSE /\ details' = [i \in DOMAIN subset(r.value) |-> Pending]
                         /\ calls' = calls \o
                              [i \in DOMAIN subset(r.value) |->
                                 [service |-> "details", place_id |-> subset(r.value)[i]]]
                         /\ pc' = "details"
                         /\ UNCHANGED response
  /\ UNCHANGED <<env, request, body, coords, filtered, groqPitches>>

\* lines 325-359 when every detail promise is fulfilled: the filter, then
\* either a response or the request of buildGroqPitch
AfterDetails(items) ==
  LET kept == WebsiteFilter(items)
  IN /\ filtered' = kept
     /\ IF Len(kept) = 0
          THEN /\ Respond(AllHaveWebsiteResponse(summaries))
               /\ UNCHANGED <<groqPitches, calls>>
          ELSE IF ~groqKey
            THEN /\ groqPitches' = JsArray(<<>>)
                 /\ Respond(FinalResponse(summaries, kept,
                                          Combine(kept, JsArray(<<>>)).value))
                 /\ UNCHANGED calls
            ELSE /\ calls' = Append(calls,
                       [service |-> "groq",
                        placeIds |-> [i \in DOMAIN kept |-> kept[i].place_id]])
                 /\ pc' = "pitch"
                 /\ UNCHANGED <<groqPitches, response>>

\* lines 151-161 and 310-323: one detail request is answered, in any order;
\* the first rejection rejects the Promise.all and POST's catch responds
DetailResponds(i, res) ==
  /\ LET r == EnrichDetail(fetchPlaceDetails(res))
         ds == [details EXCEPT ![i] = Settled(r)]
     IN /\ details' = ds
        /\ IF r.threw
             THEN /\ Respond(ErrorResponse(r.message))
                  /\ UNCHANGED <<filtered, groqPitches, calls>>
             ELSE IF \E j \in DOMAIN ds : ds[j] = Pending
               THEN UNCHANGED <<pc, filtered, groqPitches, response, calls>>
               ELSE AfterDetails(Values(ds))
  /\ UNCHANGED <<env, request, body, coords, summaries>>

\* lines 223-249 and 344-370: the generator answers
GroqResponds(res) ==
  /\ LET r == buildGroqPitch(res)
     IN IF r.threw
          THEN /\ Respond(ErrorResponse(r.message))
               /\ UNCHANGED groqPitches
          ELSE /\ groqPitches' = r.value
               /\ LET combined == Combine(filtered, r.value)
                  IN IF combined.threw
                       THEN Respond(ErrorResponse(combined.message))
                       ELSE Respond(FinalResponse(summaries, filtered, combined.value))
  /\ UNCHANGED <<env, request, body, coords, summaries, details, filtered, calls>>

\* the request arrives and the key is configured
PostReadsBody ==
  /\ pc = "start"
  /\ googleKey
  /\ \E json \in RequestBodies : PostRejectsBody(json) \/ PostAcceptsBody(json)

GeocodeSettles ==
  /\ pc = "geocode"
  /\ \E res \in GeocodeResponses : GeocodeResponds(res)

SearchSettles ==
  /\ pc = "search"
  /\ \E res \in SearchResponses : SearchResponds(res)

DetailSettles ==
  /\ pc = "details"
  /\ \E i \in {j \in DOMAIN details : details[j] = Pending} :
       \E res \in DetailResponses(subset(summaries)[i]) : DetailResponds(i, res)

GroqSettles ==
  /\ pc = "pitch"
  /\ \E res \in GroqResponses : GroqResponds(res)

Next ==
  \/ PostWithoutKey
  \/ PostReadsBody
  \/ GeocodeSettles
  \/ SearchSettles
  \/ DetailSettles
  \/ GroqSettles

Spec == Init /\ [][Next]_vars

-----------------------------------------------------------------------------
(* Vocabulary of the properties *)

Responded == pc = "done"

Ok200 == Responded /\ response.status = 200

CallsTo(service) == {i \in DOMAIN calls : calls[i].service = service}

\* the request's maxResults, 5 when omitted
RequestedMaxResults == IF Has(body, "maxResults") THEN body.maxResults.int ELSE 5

NoWebsite(b) == ~Has(b, "website") \/ b.website = ""

\* the outputs of the generator, as buildGroqPitch returned them
GeneratorOutputs ==
  IF groqPitches = Undefined \/ groqPitches.type # "array" THEN {}
  ELSE Range(groqPitches.items)

AllSettled == \A i \in DOMAIN details : details[i] # Pending

\* C1: every business of a 200 response has an empty or absent website
C1_NoWebsiteInResponse ==
  Ok200 => \A i \in DOMAIN response.businesses : NoWebsite(response.businesses[i])

\* a 200 response that keeps a business with an empty website while a
\* fetched detail with a website was dropped
C1_Witness ==
  /\ Ok200
  /\ \E i \in DOMAIN response.businesses :
       Has(response.businesses[i], "website") /\ response.businesses[i].website = ""
  /\ \E j \in DOMAIN details :
       /\ details[j].state = "fulfilled"
       /\ details[j].value # Null
       /\ ~NoWebsite(details[j].value)

\* C2: a 200 response holds at most maxResults businesses, 5 when omitted
C2_AtMostMaxResults ==
  Ok200 => Len(response.businesses) <= RequestedMaxResults

\* maxResults omitted, more than 5 website-free details fetched, 5 returned
C2_Witness ==
  /\ Ok200
  /\ ~Has(body, "maxResults")
  /\ Cardinality({j \in DOMAIN details :
                    /\ details[j].state = "fulfilled"
                    /\ details[j].value # Null
                    /\ NoWebsite(details[j].value)}) > 5
  /\ Len(response.businesses) = 5

\* C3 as stated: in a 200 response a pitch is null or a generator output of
\* the business's place id, unmatched outputs appear nowhere, a business
\* without a matching output has a null pitch, and each pitch present
\* matches exactly one business
C3_PitchMatchesExactlyOne ==
  Ok200 =>
    LET bs == response.businesses
    IN /\ \A i \in DOMAIN bs :
            \/ bs[i].pitch = Null
            \/ bs[i].pitch \in GeneratorOutputs /\ bs[i].pitch.placeId = bs[i].place_id
       /\ \A g \in GeneratorOutputs :
            (\A i \in DOMAIN bs : bs[i].place_id # g.placeId)
              => \A i \in DOMAIN bs : bs[i].pitch # g
       /\ \A i \in DOMAIN bs :
            (\A g \in GeneratorOutputs : g.placeId # bs[i].place_id)
              => bs[i].pitch = Null
       /\ \A i \in DOMAIN bs :
            bs[i].pitch # Null
              => Cardinality({j \in DOMAIN bs : bs[j].place_id = bs[i].pitch.placeId}) = 1

\* C3 as amended: the first three parts as stated; a pitch present is the
\* first generator output of its business's place id and is carried by every
\* returned business of that place id, which is exactly one business when
\* the returned place ids are pairwise distinct
C3_PitchMatchesItsBusiness ==
  Ok200 =>
    LET bs == response.businesses
    IN /\ \A i \in DOMAIN bs :
            \/ bs[i].pitch = Null
            \/ bs[i].pitch \in GeneratorOutputs /\ bs[i].pitch.placeId = bs[i].place_id
       /\ \A g \in GeneratorOutputs :
            (\A i \in DOMAIN bs : bs[i].place_id # g.placeId)
              => \A i \in DOMAIN bs : bs[i].pitch # g
       /\ \A i \in DOMAIN bs :
            (\A g \in GeneratorOutputs : g.placeId # bs[i].place_id)
              <=> bs[i].pitch = Null
       /\ \A i \in DOMAIN bs :
            bs[i].pitch # Null
              => /\ \A k \in DOMAIN groqPitches.items :
                      groqPitches.items[k].placeId = bs[i].place_id
                        => \E h \in 1..k : groqPitches.items[h] = bs[i].pitch
                 /\ {j \in DOMAIN bs : bs[j].pitch = bs[i].pitch}
                      = {j \in DOMAIN bs : bs[j].place_id = bs[i].pitch.placeId}
       /\ (\A i, j \in DOMAIN bs : bs[i].place_id = bs[j].place_id => i = j)
            => \A i \in DOMAIN bs :
                 bs[i].pitch # Null
                   => Cardinality({j \in DOMAIN bs :
                                     bs[j].place_id = bs[i].pitch.placeId}) = 1

\* a 200 response where two businesses of one place id carry the same
\* output and an output of another place id was dropped
C3_Witness ==
  /\ Ok200
  /\ \E i, j \in DOMAIN response.businesses :
       /\ i # j
       /\ response.businesses[i].pitch # Null
       /\ response.businesses[i].pitch = response.businesses[j].pitch
  /\ \E g \in GeneratorOutputs :
       \A i \in DOMAIN response.businesses : response.businesses[i].place_id # g.placeId

\* the generator answered with a completion whose content is, once the
\* fences are gone, one JSON object with an array under "businesses"
ExpectedPitchJson(res) ==
  /\ res.fetch = "resolved"
  /\ res.ok
  /\ res.data # InvalidJson
  /\ Has(res.data, "choices")
  /\ Len(res.data.choices) > 0
  /\ LET text == SelectSeq(res.data.choices[1].message.content,
                           LAMBDA piece : ~Has(piece, "fence"))
     IN /\ Len(text) = 1
        /\ text[1].text = "json"
        /\ text[1].value # Null
        /\ Has(text[1].value, "businesses")
        /\ text[1].value.businesses.type = "array"

\* C4: with a business retained, a pitch-generation call that fails
\* (transport, HTTP status or content that is not the expected JSON) still
\* ends in the 200 response of the retained businesses, each with a null pitch
C4_PitchFailureAbsorbed ==
  [][pc = "pitch" =>
     \A res \in GroqResponses :
       (~ExpectedPitchJson(res) /\ GroqResponds(res))
         => /\ pc' = "done"
            /\ response'.status = 200
            /\ Len(response'.businesses) = Len(filtered)
            /\ \A i \in DOMAIN filtered :
                 /\ response'.businesses[i].place_id = filtered[i].place_id
                 /\ response'.businesses[i].pitch = Null]_vars

DetailFetchFailed(d) ==
  \/ d.state = "rejected"
  \/ d.state = "fulfilled" /\ d.value = Null

\* C5: a detail fetch that fails or finds nothing does not abort the batch:
\* the handler goes on only when every sibling fetch is settled, and a request
\* that ends without a pitch-generation call ends in the 200 response built
\* from the fetches that succeeded
C5_DetailFailureIsolated ==
  (pc \in {"pitch", "done"} /\ \E i \in DOMAIN details : DetailFetchFailed(details[i]))
    => /\ AllSettled
       /\ (Responded /\ CallsTo("groq") = {})
            => /\ response.status = 200
               /\ \A i \in DOMAIN response.businesses :
                    \E j \in DOMAIN details :
                      /\ details[j].state = "fulfilled"
                      /\ details[j].value # Null
                      /\ details[j].value.place_id = response.businesses[i].place_id

\* C6: without GROQ_API_KEY no pitch-generation call is made and every
\* business of a 200 response has a null pitch
C6_NoKeyNoPitch ==
  ~env.GROQ_API_KEY
    => /\ CallsTo("groq") = {}
       /\ Ok200 => \A i \in DOMAIN response.businesses :
                     response.businesses[i].pitch = Null

\* a 200 response with a business, the key being absent
C6_Witness ==
  /\ ~env.GROQ_API_KEY
  /\ Ok200
  /\ Len(response.businesses) > 0

\* the search succeeded and found nothing
ZeroResults(res) ==
  /\ res.fetch = "resolved"
  /\ res.ok
  /\ res.data # InvalidJson
  /\ res.data.status \in {"OK", "ZERO_RESULTS"}
  /\ Has(res.data, "results") => Len(res.data.results) = 0

\* C7: a search that succeeds with zero results ends the request in a 200
\* response with no business, both counts 0 and a note, and no details or
\* pitch-generation call is ever made
C7_ZeroResults ==
  [][/\ pc = "search" =>
          \A res \in SearchResponses :
            (ZeroResults(res) /\ SearchResponds(res))
              => /\ pc' = "done"
                 /\ response'.status = 200
                 /\ response'.businesses = <<>>
                 /\ response'.metadata.totalFound = 0
                 /\ response'.metadata.totalWithoutWebsite = 0
                 /\ Has(response'.metadata, "note")
                 /\ CallsTo("details")' = {}
                 /\ CallsTo("groq")' = {}
     /\ pc = "done" => calls' = calls]_vars

\* the zero-results response, after a geocoding and a search call only
C7_Witness ==
  /\ Ok200
  /\ summaries = <<>>
  /\ response.metadata.totalFound = 0
  /\ Len(calls) = 2

\* every detail fetch is settled and none left a website-free detail
NothingWebsiteFree ==
  /\ details # <<>>
  /\ \A i \in DOMAIN details :
       /\ details[i].state = "fulfilled"
       /\ details[i].value = Null \/ ~NoWebsite(details[i].value)

\* C8: summaries found but no website-free detail left: a 200 response with
\* no business, totalFound the number of summaries, totalWithoutWebsite 0,
\* a note, and no pitch-generation call
C8_AllHaveWebsites ==
  NothingWebsiteFree
    => /\ Responded
       /\ response.status = 200
       /\ response.businesses = <<>>
       /\ response.metadata.totalFound = Len(summaries)
       /\ response.metadata.totalWithoutWebsite = 0
       /\ Has(response.metadata, "note")
       /\ CallsTo("groq") = {}

\* the case with more summaries than details fetched
C8_Witness ==
  /\ NothingWebsiteFree
  /\ Responded
  /\ Len(summaries) > Len(details)
  /\ \E i \in DOMAIN details : details[i].value = Null
  /\ \E i \in DOMAIN details : details[i].value # Null

\* C9: without GOOGLE_MAPS_API_KEY the body is never read, no outbound call
\* is made and the response is a 500 error envelope
C9_MissingKey ==
  ~env.GOOGLE_MAPS_API_KEY
    => /\ ~request.bodyUsed
       /\ calls = <<>>
       /\ Responded => response.status = 500 /\ Has(response, "error")

\* the 500 response of a request made without the key
C9_Witness ==
  /\ ~env.GOOGLE_MAPS_API_KEY
  /\ Responded

\* the properties of a JSON object that break the rules of a SearchRequest
ViolatedFields(o) ==
  {k \in {"query", "location"} :
     ~Has(o, k) \/ o[k].type # "string" \/ o[k].length < 2}
  \cup {k \in {"radius"} :
          Has(o, k) /\ (o[k].type # "number" \/ o[k].half
                        \/ o[k].int < 500 \/ o[k].int > 50000)}
  \cup {k \in {"maxResults"} :
          Has(o, k) /\ (o[k].type # "number" \/ o[k].half
                        \/ o[k].int < 1 \/ o[k].int > 8)}
  \cup {k \in {"vibe"} : Has(o, k) /\ (o[k].type # "string" \/ o[k].length > 280)}
  \cup {k \in {"tone"} : Has(o, k) /\ (o[k].type # "string" \/ o[k].length > 120)}

\* C10: a JSON body that breaks the schema is answered 400 with a details
\* map that has an entry for every violated field, and no outbound call is made
C10_AllViolationsReported ==
  (/\ request.bodyUsed
   /\ \/ request.json.kind = "array"
      \/ request.json.kind = "object" /\ ViolatedFields(request.json.value) # {})
    => /\ Responded
       /\ response.status = 400
       /\ Has(response, "details")
       /\ request.json.kind = "object"
            => ViolatedFields(request.json.value) \subseteq DOMAIN response.details
       /\ calls = <<>>

\* a 400 response that names query and at least two more fields
C10_Witness ==
  /\ Responded
  /\ response.status = 400
  /\ Has(response, "details")
  /\ request.json.kind = "object"
  /\ Has(request.json.value, "query")
  /\ request.json.value.query = Str(1)
  /\ "query" \in DOMAIN response.details
  /\ Cardinality(DOMAIN response.details) >= 3

\* the request body passed the schema
Accepted == body # Undefined

\* the fulfilled details without a website
WebsiteFree ==
  {j \in DOMAIN details :
     /\ details[j].state = "fulfilled"
     /\ details[j].value # Null
     /\ NoWebsite(details[j].value)}

\* C11: an accepted request has, when given, an integer radius in
\* [500, 50000] and an integer maxResults in [1, 8]; the search call uses the
\* given radius, 5000 when omitted; with maxResults omitted at most 10 details
\* are fetched and at most 5 businesses returned, as with maxResults 5
C11_BoundsAndDefaults ==
  Accepted =>
    /\ body = request.json.value
    /\ Has(body, "radius")
         => /\ body.radius.type = "number"
            /\ ~body.radius.half
            /\ body.radius.int >= 500
            /\ body.radius.int <= 50000
    /\ Has(body, "maxResults")
         => /\ body.maxResults.type = "number"
            /\ ~body.maxResults.half
            /\ body.maxResults.int >= 1
            /\ body.maxResults.int <= 8
    /\ \A i \in CallsTo("search") :
         calls[i].radius = IF Has(body, "radius") THEN body.radius.int ELSE 5000
    /\ ~Has(body, "maxResults")
         => /\ Cardinality(CallsTo("details")) = Min(Len(summaries), 10)
            /\ Ok200 => Len(response.businesses) = Min(Cardinality(WebsiteFree), 5)

\* neither given: radius 5000 searched, 10 of 11 places fetched, 5 of more
\* than 5 website-free businesses returned
C11_Witness ==
  /\ Accepted
  /\ ~Has(body, "radius")
  /\ ~Has(body, "maxResults")
  /\ \E i \in CallsTo("search") : calls[i].radius = 5000
  /\ Len(summaries) = 11
  /\ Cardinality(CallsTo("details")) = 10
  /\ Ok200
  /\ Cardinality(WebsiteFree) > 5
  /\ Len(response.businesses) = 5

\* the geocoder answered OK with at least one result
GeocodeSucceeds(res) ==
  /\ res.fetch = "resolved"
  /\ res.ok
  /\ res.data # InvalidJson
  /\ res.data.status = "OK"
  /\ Has(res.data, "results")
  /\ Len(res.data.results) > 0

\* the geocoder answered, with a status other than OK or with no result
GeocodeFindsNothing(res) ==
  /\ res.fetch = "resolved"
  /\ res.ok
  /\ res.data # InvalidJson
  /\ ~GeocodeSucceeds(res)

\* the failures of geocoding the claim lists: transport, HTTP status, status
\* other than OK, empty result list
GeocodeFails(res) ==
  \/ res.fetch = "rejected"
  \/ res.fetch = "resolved" /\ ~res.ok
  \/ GeocodeFindsNothing(res)

LocationMessage == "Impossible de localiser cette zone."

\* the stages run forward: the log of calls only grows at its end, a search
\* call is added only by the step that takes the geocoder's answer, and
\* nothing is called once the response is given
StagesRunForward ==
  /\ Len(calls') >= Len(calls)
  /\ SubSeq(calls', 1, Len(calls)) = calls
  /\ CallsTo("search")' # CallsTo("search")
       => /\ pc = "geocode"
          /\ CallsTo("geocode") # {}
          /\ \A i \in CallsTo("search")' : \E j \in CallsTo("geocode") : j < i
  /\ pc = "done" => calls' = calls

\* the step that takes a successful answer sends the search with the first
\* result's coordinates
SearchUsesFirstResult(res) ==
  /\ pc' = "search"
  /\ calls' = Append(calls, [service |-> "search", query |-> body.query,
                             location |-> res.data.results[1].geometry.location,
                             radius |-> calls'[Len(calls')].radius])

\* C12 as stated: the search call follows a successful geocoding and uses its
\* first result's coordinates; every listed failure of geocoding ends in a
\* 500 envelope with the location-resolution message and no further call
C12_GeocodeFailureMessage ==
  [][/\ StagesRunForward
     /\ pc = "geocode" =>
          \A res \in GeocodeResponses :
            GeocodeResponds(res)
              => /\ GeocodeSucceeds(res) => SearchUsesFirstResult(res)
                 /\ GeocodeFails(res)
                      => /\ pc' = "done"
                         /\ response'.status = 500
                         /\ response'.error = LocationMessage
                         /\ calls' = calls]_vars

\* C12 as amended: every failure of geocoding ends in a 500 error envelope
\* and no further call; the message is the location-resolution one when the
\* geocoder answers with a status other than OK or with no result, and
\* "Geocoding request failed." when the HTTP status is not a success
C12_GeocodeFailureEnvelope ==
  [][/\ StagesRunForward
     /\ pc = "geocode" =>
          \A res \in GeocodeResponses :
            GeocodeResponds(res)
              => /\ GeocodeSucceeds(res) => SearchUsesFirstResult(res)
                 /\ ~GeocodeSucceeds(res)
                      => /\ pc' = "done"
                         /\ response'.status = 500
                         /\ Has(response', "error")
                         /\ calls' = calls
                 /\ GeocodeFindsNothing(res)
                      => pc' = "done" /\ response'.error = LocationMessage
                 /\ (res.fetch = "resolved" /\ ~res.ok)
                      => pc' = "done" /\ response'.error = "Geocoding request failed."]_vars

\* the 500 envelope with the location-resolution message, after the
\* geocoding call alone
C12_Witness ==
  /\ Responded
  /\ response.status = 500
  /\ response.error = LocationMessage
  /\ Len(calls) = 1
  /\ calls[1].service = "geocode"

\* the place ids of the detail calls, in the order of their sending
DetailCallIds ==
  LET sent == SelectSeq(calls, LAMBDA c : c.service = "details")
  IN [i \in DOMAIN sent |-> sent[i].place_id]

\* the length of the prefix of the summaries that is looked up
PrefixLen == Min(Len(summaries), 2 * RequestedMaxResults)

\* C13: the detail calls are min(summaries, 2 x maxResults) in number, one
\* for each summary of that prefix with its place id, in upstream order, and
\* none for a summary beyond the prefix, however few businesses the filter
\* leaves
C13_DetailCallsArePrefix ==
  /\ Len(DetailCallIds) = PrefixLen
  /\ \A i \in 1..PrefixLen : DetailCallIds[i] = summaries[i].place_id
  /\ Responded => Cardinality(CallsTo("details")) = PrefixLen

\* a search with more summaries than the prefix, answered with fewer
\* businesses than maxResults
C13_Witness ==
  /\ Ok200
  /\ Len(summaries) > 2 * RequestedMaxResults
  /\ Len(response.businesses) < RequestedMaxResults
  /\ Len(DetailCallIds) = 2 * RequestedMaxResults
  /\ \A i \in 1..(2 * RequestedMaxResults) : DetailCallIds[i] = summaries[i].place_id

\* the k-th candidate, in upstream order, whose detail fetch succeeded and
\* whose website is empty or absent
KthWebsiteFree(k) ==
  CHOOSE j \in WebsiteFree : Cardinality({i \in WebsiteFree : i <= j}) = k

\* business b is the detail record d with its map link, and a pitch
IsBusinessOf(b, d) ==
  /\ DOMAIN b = DOMAIN d \cup {"pitch"}
  /\ \A key \in DOMAIN d : b[key] = d[key]

\* C14: whichever detail fetch settles first or last, the businesses of a 200
\* response are the first maxResults candidates, in upstream search order,
\* whose detail fetch succeeded and whose website is empty or absent, and
\* metadata.totalWithoutWebsite is the length of that list
C14_BusinessesInUpstreamOrder ==
  Ok200 =>
    /\ Len(response.businesses) = Min(Cardinality(WebsiteFree), RequestedMaxResults)
    /\ \A k \in DOMAIN response.businesses :
         /\ IsBusinessOf(response.businesses[k], details[KthWebsiteFree(k)].value)
         /\ response.businesses[k].place_id = summaries[KthWebsiteFree(k)].place_id
    /\ response.metadata.totalWithoutWebsite = Len(response.businesses)

\* a response of maxResults businesses, at least two, with a first candidate
\* that is passed over and more website-free candidates than are returned
C14_Witness ==
  /\ Ok200
  /\ Len(response.businesses) >= 2
  /\ Len(response.businesses) = RequestedMaxResults
  /\ Cardinality(WebsiteFree) > RequestedMaxResults
  /\ 1 \notin WebsiteFree
  /\ \A k \in DOMAIN response.businesses :
       response.businesses[k].place_id = summaries[KthWebsiteFree(k)].place_id
  /\ response.metadata.totalWithoutWebsite = Len(response.businesses)

====
